---- MODULE Spec2Model ----
(***************************************************************************)
(* Model of the reasoning-trace distillation notebook                      *)
(* tutorials/llm/distill_deepseek_r1/generate_reasoning_data.ipynb:        *)
(* load_dataset, Dataset.map(distill_data_from_r1),                        *)
(* process_streaming_response, check_format, calculate_answer,             *)
(* filter_reasoning_trace, Dataset.filter and save_to_disk.                *)
(*                                                                         *)
(* Text is a sequence of one-character strings, so that concatenation,     *)
(* str.count and the regular expression act on characters as in Python.    *)
(***************************************************************************)
EXTENDS Naturals, Sequences, FiniteSets, TLC

VARIABLES
    pc,               \* the cell of the notebook the run is in
    dataset,          \* the corpus returned by load_dataset
    sample_dataset,   \* the notebook's sample_dataset variable
    cur,              \* index of the record Dataset.map is working on
    stage,            \* position inside distill_data_from_r1
    reasoning_trace,  \* local of process_streaming_response
    consumed,         \* chunks the for loop has taken from the stream so far
    out,              \* rows Dataset.map has collected so far
    acc,              \* per record: where its accumulator stands
    requests,         \* every call of client.chat.completions.create
    calls,            \* per record: the checks filter_reasoning_trace invoked
    filtered_dataset, \* the notebook's filtered_dataset variable
    disk,             \* what save_to_disk has written
    w_stage,          \* per worker of a parallel map: position in distill_data_from_r1
    w_trace,          \* per worker: its local reasoning_trace
    w_consumed,       \* per worker: chunks its for loop has taken so far
    arrived,          \* rows the parallel map has received, in order of arrival
    inputs,           \* workflow_dispatch inputs of the "Code freeze" workflow
    code_freeze,      \* status of the job code-freeze
    release_branch,   \* needs.code-freeze.outputs.release-branch
    freeze_tags,      \* status of the job freeze-tags
    step,             \* the step of freeze-tags that is next
    checkout_ref,     \* the ref the checkout step has checked out
    pinned,           \* the edits made in the runner's checkout
    pull_requests     \* the pull requests created

\* The state of the workers of a parallel map.
wvars == <<w_stage, w_trace, w_consumed, arrived>>

\* The run of the "Code freeze" workflow: the inputs of the dispatch, the two
\* jobs, the output of the first, and what the steps of the second have done.
fvars == <<inputs, code_freeze, release_branch, freeze_tags, step, checkout_ref,
           pinned, pull_requests>>

\* The state of the notebook run.
nbvars == <<pc, dataset, sample_dataset, cur, stage, reasoning_trace, consumed,
            out, acc, requests, calls, filtered_dataset, disk, wvars>>

vars == <<nbvars, fvars>>

----------------------------------------------------------------------------
(* Bounds of the model *)

\* The longest stream the endpoint delivers, in chunks.
MaxChunks == 3

----------------------------------------------------------------------------
(* Program constants *)

\* sample_dataset = dataset.select(range(2))
NumRecords == 2

OPEN_TAG == <<"<", "t", "h", "i", "n", "k", ">">>
CLOSE_TAG == <<"<", "/", "t", "h", "i", "n", "k", ">">>
BOXED_PREFIX == <<"\\", "b", "o", "x", "e", "d", "{">>

\* What the endpoint can put in one delta: the two delimiters, and a line
\* break followed by a boxed answer.
BoxedFour == <<"\n">> \o BOXED_PREFIX \o <<"4", "}">>
Fragments == {OPEN_TAG, CLOSE_TAG, BoxedFour}

\* Python's None: a value apart from every text.
None == <<"None">>

\* A chunk of the stream: chunk.choices is empty, or choices[0].delta.content
\* is None or a text fragment.
Chunks == {[choices |-> 0, content |-> None]}
          \cup {[choices |-> 1, content |-> c] : c \in Fragments \cup {None}}

\* The corpus: records with a problem and a ground-truth answer.  The answer
\* of the second record varies, so that the same boxed answer is right for
\* one record and wrong for another; the third record is never selected.
Answers == {<<"4">>, <<"5">>}
Record(p, a) == [problem |-> p, answer |-> a]
Corpora == {<<Record("p1", <<"4">>), Record("p2", a), Record("p3", <<"5">>)>> : a \in Answers}

----------------------------------------------------------------------------
(* Text *)

\* s[i .. i+Len(sub)-1] = sub
OccursAt(s, sub, i) ==
    /\ i >= 1
    /\ i + Len(sub) - 1 <= Len(s)
    /\ SubSeq(s, i, i + Len(sub) - 1) = sub

\* str.startswith
StartsWith(s, sub) == OccursAt(s, sub, 1)

\* str.find(sub, start), 1-based; 0 when there is none
RECURSIVE Find(_, _, _)
Find(s, sub, start) ==
    IF start + Len(sub) - 1 > Len(s) THEN 0
    ELSE IF OccursAt(s, sub, start) THEN start
    ELSE Find(s, sub, start + 1)

\* str.count(sub): non-overlapping occurrences, scanned left to right
RECURSIVE CountFrom(_, _, _)
CountFrom(s, sub, start) ==
    LET i == Find(s, sub, start)
    IN  IF i = 0 THEN 0 ELSE 1 + CountFrom(s, sub, i + Len(sub))

Count(s, sub) == CountFrom(s, sub, 1)

\* The concatenation of the text deltas of a sequence of chunks; a chunk
\* without a text delta adds nothing.
RECURSIVE Concat(_)
Concat(cs) ==
    IF cs = <<>> THEN <<>>
    ELSE IF Head(cs).choices = 0 \/ Head(cs).content = None THEN Concat(Tail(cs))
    ELSE Head(cs).content \o Concat(Tail(cs))

----------------------------------------------------------------------------
(* The Trace Validator *)

\* re.DOTALL is among the flags of the match.
DOTALL == TRUE

\* re.match(r"^<think>.*?</think>", s, re.DOTALL | re.MULTILINE): the match
\* is tried at position 0 only, where ^ holds; the lazy .*? then takes any
\* run of characters (line breaks only under DOTALL) up to a closing tag.
re_match(s) ==
    /\ StartsWith(s, OPEN_TAG)
    /\ \E j \in (Len(OPEN_TAG) + 1)..Len(s) :
          /\ OccursAt(s, CLOSE_TAG, j)
          /\ DOTALL \/ \A k \in (Len(OPEN_TAG) + 1)..(j - 1) : s[k] # "\n"

\* check_format accepting a tag that occurs at least once.
check_format_AtLeastOnce(trace) ==
    IF ~re_match(trace) THEN FALSE
    ELSE IF Count(trace, OPEN_TAG) < 1 THEN FALSE
    ELSE IF Count(trace, CLOSE_TAG) < 1 THEN FALSE
    ELSE TRUE

\* check_format looking at the opening tag alone.
check_format_OpenTagOnly(trace) ==
    IF ~StartsWith(trace, OPEN_TAG) THEN FALSE
    ELSE IF Count(trace, OPEN_TAG) # 1 THEN FALSE
    ELSE TRUE

check_format(trace) ==
    IF ~re_match(trace) THEN FALSE
    ELSE IF Count(trace, OPEN_TAG) # 1 THEN FALSE
    ELSE IF Count(trace, CLOSE_TAG) # 1 THEN FALSE
    ELSE TRUE

\* The last index at which sub occurs in s; 0 when there is none.
RECURSIVE RFind(_, _, _)
RFind(s, sub, start) ==
    IF start < 1 THEN 0
    ELSE IF OccursAt(s, sub, start) THEN start
    ELSE RFind(s, sub, start - 1)

\* math_verify.parse with one LatexExtractionConfig(boxed_match_priority=0,
\* try_extract_without_anchor=False) and extraction_mode="first_match": the
\* content of the last \boxed{...} of the text, as a list of at most one
\* expression; the empty list when nothing is extracted.
parse(text) ==
    LET i == RFind(text, BOXED_PREFIX, Len(text))
        from == i + Len(BOXED_PREFIX)
        j == IF i = 0 THEN 0 ELSE Find(text, <<"}">>, from)
    IN  IF i = 0 \/ j = 0 \/ j = from THEN <<>>
        ELSE <<SubSeq(text, from, j - 1)>>

\* math_verify.verify(gold, target): some extracted expression is judged
\* equal to the target; False on an empty extraction.
verify(answer_parsed, ground_truth) ==
    \E k \in 1..Len(answer_parsed) : answer_parsed[k] = ground_truth

\* calculate_answer passing a trace from which nothing is extracted.
calculate_answer_EmptyPasses(trace, ground_truth) ==
    parse(trace) = <<>> \/ verify(parse(trace), ground_truth)

calculate_answer(trace, ground_truth) ==
    verify(parse(trace), ground_truth)

\* {**example, k1: v1, ...}: the keys written last win.
Merge(example, extra) == extra @@ example

\* filter_reasoning_trace keeping a row whose answer is wrong.
filter_reasoning_trace_KeepsIncorrect(example) ==
    LET trace == example.reasoning_trace
        ground_truth == example.answer
    IN  IF ~check_format(trace)
        THEN [ret |-> Merge(example, [filtered |-> TRUE, filtered_reason |-> "INVALID_FORMAT"]),
              invoked |-> <<"check_format">>]
        ELSE IF ~calculate_answer(trace, ground_truth)
        THEN [ret |-> Merge(example, [filtered |-> FALSE, filtered_reason |-> "INCORRECT_ANSWER"]),
              invoked |-> <<"check_format", "calculate_answer">>]
        ELSE [ret |-> Merge(example, [filtered |-> FALSE, filtered_reason |-> "VALID"]),
              invoked |-> <<"check_format", "calculate_answer">>]

\* filter_reasoning_trace running the answer check before the format check.
filter_reasoning_trace_AnswerFirst(example) ==
    LET trace == example.reasoning_trace
        ground_truth == example.answer
    IN  IF ~calculate_answer(trace, ground_truth)
        THEN [ret |-> Merge(example, [filtered |-> TRUE, filtered_reason |-> "INCORRECT_ANSWER"]),
              invoked |-> <<"calculate_answer">>]
        ELSE IF ~check_format(trace)
        THEN [ret |-> Merge(example, [filtered |-> TRUE, filtered_reason |-> "INVALID_FORMAT"]),
              invoked |-> <<"calculate_answer", "check_format">>]
        ELSE [ret |-> Merge(example, [filtered |-> FALSE, filtered_reason |-> "VALID"]),
              invoked |-> <<"calculate_answer", "check_format">>]

\* filter_reasoning_trace reading a verdict already on the row: a row that was
\* judged before is rejected as seen.
filter_reasoning_trace_ReadsVerdict(example) ==
    LET trace == example.reasoning_trace
        ground_truth == example.answer
    IN  IF "filtered" \in DOMAIN example
        THEN [ret |-> Merge(example, [filtered |-> TRUE, filtered_reason |-> "INVALID_FORMAT"]),
              invoked |-> <<>>]
        ELSE IF ~check_format(trace)
        THEN [ret |-> Merge(example, [filtered |-> TRUE, filtered_reason |-> "INVALID_FORMAT"]),
              invoked |-> <<"check_format">>]
        ELSE IF ~calculate_answer(trace, ground_truth)
        THEN [ret |-> Merge(example, [filtered |-> TRUE, filtered_reason |-> "INCORRECT_ANSWER"]),
              invoked |-> <<"check_format", "calculate_answer">>]
        ELSE [ret |-> Merge(example, [filtered |-> FALSE, filtered_reason |-> "VALID"]),
              invoked |-> <<"check_format", "calculate_answer">>]

\* filter_reasoning_trace returning the verdict without the fields of the row
\* it judged, but for the reasoning trace.
filter_reasoning_trace_VerdictOnly(example) ==
    LET trace == example.reasoning_trace
        ground_truth == example.answer
        bare == [reasoning_trace |-> trace]
    IN  IF ~check_format(trace)
        THEN [ret |-> Merge(bare, [filtered |-> TRUE, filtered_reason |-> "INVALID_FORMAT"]),
              invoked |-> <<"check_format">>]
        ELSE IF ~calculate_answer(trace, ground_truth)
        THEN [ret |-> Merge(bare, [filtered |-> TRUE, filtered_reason |-> "INCORRECT_ANSWER"]),
              invoked |-> <<"check_format", "calculate_answer">>]
        ELSE [ret |-> Merge(bare, [filtered |-> FALSE, filtered_reason |-> "VALID"]),
              invoked |-> <<"check_format", "calculate_answer">>]

\* The row filter_reasoning_trace returns (ret) and the checks it invoked on
\* the way, in order (invoked).
filter_reasoning_trace(example) ==
    LET trace == example.reasoning_trace
        ground_truth == example.answer
    IN  IF ~check_format(trace)
        THEN [ret |-> Merge(example, [filtered |-> TRUE, filtered_reason |-> "INVALID_FORMAT"]),
              invoked |-> <<"check_format">>]
        ELSE IF ~calculate_answer(trace, ground_truth)
        THEN [ret |-> Merge(example, [filtered |-> TRUE, filtered_reason |-> "INCORRECT_ANSWER"]),
              invoked |-> <<"check_format", "calculate_answer">>]
        ELSE [ret |-> Merge(example, [filtered |-> FALSE, filtered_reason |-> "VALID"]),
              invoked |-> <<"check_format", "calculate_answer">>]

----------------------------------------------------------------------------
(* The Trace Requester *)

\* PROMPT_TEMPLATE.format(problem=problem)
PROMPT_TEMPLATE(problem) ==
    "Please reason step by step, and put your final answer within \\boxed{}. " \o problem

\* create called with the instruction in a system message and the bare problem
\* in the user message.
create_args_WithSystem(example) ==
    [model |-> "nvdev/deepseek-ai/deepseek-r1",
     messages |-> <<[role |-> "system",
                     content |-> "Please reason step by step, and put your final answer within \\boxed{}. "],
                    [role |-> "user", content |-> example.problem]>>,
     temperature |-> "0.6",
     top_p |-> "0.7",
     max_tokens |-> 32768,
     timeout |-> 10000,
     stream |-> TRUE]

\* The arguments of client.chat.completions.create for one record.
create_args(example) ==
    [model |-> "nvdev/deepseek-ai/deepseek-r1",
     messages |-> <<[role |-> "user", content |-> PROMPT_TEMPLATE(example.problem)]>>,
     temperature |-> "0.6",
     top_p |-> "0.7",
     max_tokens |-> 32768,
     timeout |-> 10000,
     stream |-> TRUE]

----------------------------------------------------------------------------
(* The run *)

\* sample_dataset.map(distill_data_from_r1, num_proc=1)
NumProc == 1

Rows == 1..NumRecords

\* The inputs before the workflow is dispatched; dry-run has the default true.
NoInputs == [type_of_release |-> "", freeze_commit |-> "", mcore_version |-> "", dry_run |-> TRUE]

\* Dataset.map(..., num_proc=n) gives every worker process one contiguous
\* shard of the rows and never starts more workers than there are rows; with
\* num_proc raised to the number of rows, worker w has row w.
WorkerCount == NumRecords
Workers == 1..WorkerCount

Init ==
    /\ pc = "load"
    /\ dataset = <<>>
    /\ sample_dataset = <<>>
    /\ cur = 1
    /\ stage = "request"
    /\ reasoning_trace = <<>>
    /\ consumed = <<>>
    /\ out = <<>>
    /\ acc = [i \in Rows |-> "IDLE"]
    /\ requests = <<>>
    /\ calls = [i \in Rows |-> <<>>]
    /\ filtered_dataset = <<>>
    /\ disk = <<>>
    /\ w_stage = [w \in Workers |-> "idle"]
    /\ w_trace = [w \in Workers |-> <<>>]
    /\ w_consumed = [w \in Workers |-> <<>>]
    /\ arrived = <<>>
    /\ inputs = NoInputs
    /\ code_freeze = "idle"
    /\ release_branch = ""
    /\ freeze_tags = "idle"
    /\ step = "none"
    /\ checkout_ref = ""
    /\ pinned = {}
    /\ pull_requests = <<>>

\* dataset = load_dataset("open-r1/OpenR1-Math-220k", split="train")
LoadDataset ==
    /\ pc = "load"
    /\ \E corpus \in Corpora : dataset' = corpus
    /\ pc' = "select"
    /\ UNCHANGED <<sample_dataset, cur, stage, reasoning_trace, consumed, out,
                   acc, requests, calls, filtered_dataset, disk>>
    /\ UNCHANGED wvars
    /\ UNCHANGED fvars

\* A failed load taken as an empty corpus: the run goes on to write the
\* (empty) filtered dataset.
LoadFails_SavesEmpty ==
    /\ pc = "load"
    /\ pc' = "save"
    /\ UNCHANGED <<dataset, sample_dataset, cur, stage, reasoning_trace, consumed,
                   out, acc, requests, calls, filtered_dataset, disk>>
    /\ UNCHANGED wvars
    /\ UNCHANGED fvars

\* load_dataset raises: the corpus or the split cannot be located.
LoadFails ==
    /\ pc = "load"
    /\ pc' = "aborted"
    /\ UNCHANGED <<dataset, sample_dataset, cur, stage, reasoning_trace, consumed,
                   out, acc, requests, calls, filtered_dataset, disk>>
    /\ UNCHANGED wvars
    /\ UNCHANGED fvars

\* sample_dataset = dataset.select(range(2)), and Dataset.map starts on row 1.
SelectSample ==
    /\ pc = "select"
    /\ sample_dataset' = SubSeq(dataset, 1, NumRecords)
    /\ pc' = "distill"
    /\ cur' = 1
    /\ stage' = "request"
    /\ out' = <<>>
    /\ UNCHANGED <<dataset, reasoning_trace, consumed, acc, requests, calls,
                   filtered_dataset, disk>>
    /\ UNCHANGED wvars
    /\ UNCHANGED fvars

\* distill_data_from_r1, up to the first wait on the stream: create returns
\* the stream and process_streaming_response sets reasoning_trace = "".
\* A request sent for the current row without waiting for the stream of the
\* request before it to end.
Request_WhileStreaming ==
    /\ pc = "distill"
    /\ stage \in {"request", "stream"}
    /\ Len(requests) <= cur
    /\ requests' = Append(requests, create_args(sample_dataset[cur]))
    /\ reasoning_trace' = <<>>
    /\ consumed' = <<>>
    /\ stage' = "stream"
    /\ UNCHANGED <<pc, dataset, sample_dataset, cur, out, acc, calls,
                   filtered_dataset, disk>>
    /\ UNCHANGED wvars
    /\ UNCHANGED fvars

Request ==
    /\ pc = "distill"
    /\ stage = "request"
    /\ requests' = Append(requests, create_args(sample_dataset[cur]))
    /\ reasoning_trace' = <<>>
    /\ consumed' = <<>>
    /\ stage' = "stream"
    /\ UNCHANGED <<pc, dataset, sample_dataset, cur, out, acc, calls,
                   filtered_dataset, disk>>
    /\ UNCHANGED wvars
    /\ UNCHANGED fvars

\* A failing request that ends the map early and lets the run save the rows
\* distilled so far.
RequestFails_SavesPartial ==
    /\ pc = "distill"
    /\ stage = "request"
    /\ requests' = Append(requests, create_args(sample_dataset[cur]))
    /\ filtered_dataset' = out
    /\ pc' = "save"
    /\ UNCHANGED <<dataset, sample_dataset, cur, stage, reasoning_trace, consumed,
                   out, acc, calls, disk>>
    /\ UNCHANGED wvars
    /\ UNCHANGED fvars

\* client.chat.completions.create raises: the call stands outside any try,
\* so the exception leaves distill_data_from_r1 and Dataset.map.
RequestFails ==
    /\ pc = "distill"
    /\ stage = "request"
    /\ requests' = Append(requests, create_args(sample_dataset[cur]))
    /\ pc' = "aborted"
    /\ UNCHANGED <<dataset, sample_dataset, cur, stage, reasoning_trace, consumed,
                   out, acc, calls, filtered_dataset, disk>>
    /\ UNCHANGED wvars
    /\ UNCHANGED fvars

\* return {**example, "reasoning_trace": reasoning_trace}, collected by
\* Dataset.map as the row of the current record.
Collect(row_trace) ==
    out' = Append(out, Merge(sample_dataset[cur], [reasoning_trace |-> row_trace]))

\* The for loop putting the new fragment in front of the accumulated text.
NextChunk_Prepends ==
    /\ pc = "distill"
    /\ stage = "stream"
    /\ Len(consumed) < MaxChunks
    /\ \E chunk \in {c \in Chunks : c.choices > 0} :
          /\ consumed' = Append(consumed, chunk)
          /\ IF chunk.content # None
             THEN /\ reasoning_trace' = chunk.content \o reasoning_trace
                  /\ acc' = [acc EXCEPT ![cur] = "STREAMING"]
             ELSE UNCHANGED <<reasoning_trace, acc>>
    /\ UNCHANGED <<pc, dataset, sample_dataset, cur, stage, out, requests, calls,
                   filtered_dataset, disk>>
    /\ UNCHANGED wvars
    /\ UNCHANGED fvars

\* One pass of the for loop over a chunk whose choices[0] exists.
NextChunk ==
    /\ pc = "distill"
    /\ stage = "stream"
    /\ Len(consumed) < MaxChunks
    /\ \E chunk \in {c \in Chunks : c.choices > 0} :
          /\ consumed' = Append(consumed, chunk)
          /\ IF chunk.content # None
             THEN /\ reasoning_trace' = reasoning_trace \o chunk.content
                  /\ acc' = [acc EXCEPT ![cur] = "STREAMING"]
             ELSE UNCHANGED <<reasoning_trace, acc>>
    /\ UNCHANGED <<pc, dataset, sample_dataset, cur, stage, out, requests, calls,
                   filtered_dataset, disk>>
    /\ UNCHANGED wvars
    /\ UNCHANGED fvars

\* The stream is exhausted: the for loop ends, return reasoning_trace.
StreamEnd ==
    /\ pc = "distill"
    /\ stage = "stream"
    /\ Collect(reasoning_trace)
    /\ acc' = [acc EXCEPT ![cur] = "COMPLETE"]
    /\ stage' = "returned"
    /\ UNCHANGED <<pc, dataset, sample_dataset, cur, reasoning_trace, consumed,
                   requests, calls, filtered_dataset, disk>>
    /\ UNCHANGED wvars
    /\ UNCHANGED fvars

\* The except branch returning an empty trace instead of the partial one.
StreamError_DropsPartial ==
    /\ pc = "distill"
    /\ stage = "stream"
    /\ Collect(<<>>)
    /\ acc' = [acc EXCEPT ![cur] = "TRUNCATED"]
    /\ stage' = "returned"
    /\ UNCHANGED <<pc, dataset, sample_dataset, cur, reasoning_trace, consumed,
                   requests, calls, filtered_dataset, disk>>
    /\ UNCHANGED wvars
    /\ UNCHANGED fvars

\* The loop without its try: the failure leaves process_streaming_response.
StreamError_Propagates ==
    /\ pc = "distill"
    /\ stage = "stream"
    /\ acc' = [acc EXCEPT ![cur] = "TRUNCATED"]
    /\ pc' = "aborted"
    /\ UNCHANGED <<dataset, sample_dataset, cur, stage, reasoning_trace, consumed,
                   out, requests, calls, filtered_dataset, disk>>
    /\ UNCHANGED wvars
    /\ UNCHANGED fvars

\* The except branch sending the request of the record again instead of
\* returning.
StreamError_Rerequests ==
    /\ pc = "distill"
    /\ stage = "stream"
    /\ Len(requests) <= NumRecords
    /\ stage' = "request"
    /\ reasoning_trace' = <<>>
    /\ consumed' = <<>>
    /\ UNCHANGED <<pc, dataset, sample_dataset, cur, out, acc, requests,
                   calls, filtered_dataset, disk>>
    /\ UNCHANGED wvars
    /\ UNCHANGED fvars

\* The except branch starting the accumulation over instead of returning.
StreamError_Retries ==
    /\ pc = "distill"
    /\ stage = "stream"
    /\ reasoning_trace' = <<>>
    /\ consumed' = <<>>
    /\ UNCHANGED <<pc, dataset, sample_dataset, cur, stage, out, acc, requests,
                   calls, filtered_dataset, disk>>
    /\ UNCHANGED wvars
    /\ UNCHANGED fvars

\* The stream raises while the loop waits for the next chunk (the peer closes
\* the connection, the request times out): except Exception prints the error
\* and returns reasoning_trace.
StreamError ==
    /\ pc = "distill"
    /\ stage = "stream"
    /\ Collect(reasoning_trace)
    /\ acc' = [acc EXCEPT ![cur] = "TRUNCATED"]
    /\ stage' = "returned"
    /\ UNCHANGED <<pc, dataset, sample_dataset, cur, reasoning_trace, consumed,
                   requests, calls, filtered_dataset, disk>>
    /\ UNCHANGED wvars
    /\ UNCHANGED fvars

\* A loop that catches the failure per chunk: the malformed chunk is skipped
\* and the chunks after it are still read.
BadChunk_SkipsChunk ==
    /\ pc = "distill"
    /\ stage = "stream"
    /\ Len(consumed) < MaxChunks
    /\ \E chunk \in {c \in Chunks : c.choices = 0} :
          consumed' = Append(consumed, chunk)
    /\ UNCHANGED <<pc, dataset, sample_dataset, cur, stage, reasoning_trace, out,
                   acc, requests, calls, filtered_dataset, disk>>
    /\ UNCHANGED wvars
    /\ UNCHANGED fvars

\* A malformed chunk ending the stream without a row for the record.
BadChunk_DropsRow ==
    /\ pc = "distill"
    /\ stage = "stream"
    /\ Len(consumed) < MaxChunks
    /\ \E chunk \in {c \in Chunks : c.choices = 0} :
          consumed' = Append(consumed, chunk)
    /\ acc' = [acc EXCEPT ![cur] = "TRUNCATED"]
    /\ stage' = "returned"
    /\ UNCHANGED <<pc, dataset, sample_dataset, cur, reasoning_trace, out, requests,
                   calls, filtered_dataset, disk>>
    /\ UNCHANGED wvars
    /\ UNCHANGED fvars

\* A chunk with an empty choices list: chunk.choices[0] raises IndexError
\* inside the try, with the same outcome.
BadChunk ==
    /\ pc = "distill"
    /\ stage = "stream"
    /\ Len(consumed) < MaxChunks
    /\ \E chunk \in {c \in Chunks : c.choices = 0} :
          consumed' = Append(consumed, chunk)
    /\ Collect(reasoning_trace)
    /\ acc' = [acc EXCEPT ![cur] = "TRUNCATED"]
    /\ stage' = "returned"
    /\ UNCHANGED <<pc, dataset, sample_dataset, cur, reasoning_trace, requests,
                   calls, filtered_dataset, disk>>
    /\ UNCHANGED wvars
    /\ UNCHANGED fvars

\* Dataset.map putting the accumulator of the finished row back to IDLE.
NextRow_ResetsAcc ==
    /\ pc = "distill"
    /\ stage = "returned"
    /\ reasoning_trace' = <<>>
    /\ consumed' = <<>>
    /\ acc' = [acc EXCEPT ![cur] = "IDLE"]
    /\ IF cur < NumRecords
       THEN /\ cur' = cur + 1
            /\ stage' = "request"
            /\ UNCHANGED <<pc, sample_dataset, out>>
       ELSE /\ sample_dataset' = out
            /\ out' = <<>>
            /\ cur' = 1
            /\ stage' = "request"
            /\ pc' = "validate"
    /\ UNCHANGED <<dataset, requests, calls, filtered_dataset, disk>>
    /\ UNCHANGED wvars
    /\ UNCHANGED fvars

\* Dataset.map goes on to the next row, or returns after the last one and
\* the notebook assigns its result to sample_dataset.
NextRow ==
    /\ pc = "distill"
    /\ stage = "returned"
    /\ reasoning_trace' = <<>>
    /\ consumed' = <<>>
    /\ IF cur < NumRecords
       THEN /\ cur' = cur + 1
            /\ stage' = "request"
            /\ UNCHANGED <<pc, sample_dataset, out>>
       ELSE /\ sample_dataset' = out
            /\ out' = <<>>
            /\ cur' = 1
            /\ stage' = "request"
            /\ pc' = "validate"
    /\ UNCHANGED <<dataset, acc, requests, calls, filtered_dataset, disk>>
    /\ UNCHANGED wvars
    /\ UNCHANGED fvars

\* sample_dataset.map(filter_reasoning_trace) on the current row; after the
\* last row the result is assigned to sample_dataset.
\* A validator that sends the row back to the endpoint: a later stage
\* feeding an earlier one.
Validate_Reissues ==
    /\ pc = "validate"
    /\ LET res == filter_reasoning_trace(sample_dataset[cur])
       IN  /\ calls' = [calls EXCEPT ![cur] = res.invoked]
           /\ requests' = Append(requests, create_args(sample_dataset[cur]))
           /\ IF cur < NumRecords
              THEN /\ out' = Append(out, res.ret)
                   /\ cur' = cur + 1
                   /\ UNCHANGED <<pc, sample_dataset>>
              ELSE /\ sample_dataset' = Append(out, res.ret)
                   /\ out' = <<>>
                   /\ cur' = 1
                   /\ pc' = "filter"
    /\ UNCHANGED <<dataset, stage, reasoning_trace, consumed, acc,
                   filtered_dataset, disk>>
    /\ UNCHANGED wvars
    /\ UNCHANGED fvars

\* A validating map that looks at how the stream ended and rejects every row
\* whose stream was cut short.
Validate_RejectsTruncated ==
    /\ pc = "validate"
    /\ LET judged == filter_reasoning_trace(sample_dataset[cur])
           res == IF acc[cur] = "TRUNCATED"
                  THEN [ret |-> Merge(sample_dataset[cur],
                                      [filtered |-> TRUE, filtered_reason |-> "INVALID_FORMAT"]),
                        invoked |-> <<"check_format">>]
                  ELSE judged
       IN  /\ calls' = [calls EXCEPT ![cur] = res.invoked]
           /\ IF cur < NumRecords
              THEN /\ out' = Append(out, res.ret)
                   /\ cur' = cur + 1
                   /\ UNCHANGED <<pc, sample_dataset>>
              ELSE /\ sample_dataset' = Append(out, res.ret)
                   /\ out' = <<>>
                   /\ cur' = 1
                   /\ pc' = "filter"
    /\ UNCHANGED <<dataset, stage, reasoning_trace, consumed, acc, requests,
                   filtered_dataset, disk>>
    /\ UNCHANGED wvars
    /\ UNCHANGED fvars

Validate ==
    /\ pc = "validate"
    /\ LET res == filter_reasoning_trace(sample_dataset[cur])
       IN  /\ calls' = [calls EXCEPT ![cur] = res.invoked]
           /\ IF cur < NumRecords
              THEN /\ out' = Append(out, res.ret)
                   /\ cur' = cur + 1
                   /\ UNCHANGED <<pc, sample_dataset>>
              ELSE /\ sample_dataset' = Append(out, res.ret)
                   /\ out' = <<>>
                   /\ cur' = 1
                   /\ pc' = "filter"
    /\ UNCHANGED <<dataset, stage, reasoning_trace, consumed, acc, requests,
                   filtered_dataset, disk>>
    /\ UNCHANGED wvars
    /\ UNCHANGED fvars

\* The filter step keeping the rows it is to remove.
FilterDataset_KeepsFiltered ==
    /\ pc = "filter"
    /\ filtered_dataset' = SelectSeq(sample_dataset, LAMBDA x : x.filtered)
    /\ pc' = "save"
    /\ UNCHANGED <<dataset, sample_dataset, cur, stage, reasoning_trace, consumed,
                   out, acc, requests, calls, disk>>
    /\ UNCHANGED wvars
    /\ UNCHANGED fvars

\* filtered_dataset = sample_dataset.filter(lambda x: not x["filtered"])
FilterDataset ==
    /\ pc = "filter"
    /\ filtered_dataset' = SelectSeq(sample_dataset, LAMBDA x : ~x.filtered)
    /\ pc' = "save"
    /\ UNCHANGED <<dataset, sample_dataset, cur, stage, reasoning_trace, consumed,
                   out, acc, requests, calls, disk>>
    /\ UNCHANGED wvars
    /\ UNCHANGED fvars

\* filtered_dataset.save_to_disk("filtered_dataset")
SaveToDisk ==
    /\ pc = "save"
    /\ disk' = filtered_dataset
    /\ pc' = "done"
    /\ UNCHANGED <<dataset, sample_dataset, cur, stage, reasoning_trace, consumed,
                   out, acc, requests, calls, filtered_dataset>>
    /\ UNCHANGED wvars
    /\ UNCHANGED fvars

Next ==
    \/ LoadDataset
    \/ LoadFails
    \/ SelectSample
    \/ Request
    \/ RequestFails
    \/ NextChunk
    \/ StreamEnd
    \/ StreamError
    \/ BadChunk
    \/ NextRow
    \/ Validate
    \/ FilterDataset
    \/ SaveToDisk

Spec == Init /\ [][Next]_vars

----------------------------------------------------------------------------
(* The distillation map with worker processes *)

seqvars == <<cur, stage, reasoning_trace, consumed, out>>

\* sample_dataset = dataset.select(range(2)), and Dataset.map starts one
\* worker for each shard.
SelectSamplePar ==
    /\ pc = "select"
    /\ sample_dataset' = SubSeq(dataset, 1, NumRecords)
    /\ pc' = "distill_par"
    /\ w_stage' = [w \in Workers |-> "request"]
    /\ arrived' = <<>>
    /\ UNCHANGED <<dataset, acc, requests, calls, filtered_dataset, disk, seqvars,
                   w_trace, w_consumed>>
    /\ UNCHANGED fvars

\* Worker w: distill_data_from_r1 up to the first wait on its stream.
WRequest ==
    /\ pc = "distill_par"
    /\ \E w \in Workers :
          /\ w_stage[w] = "request"
          /\ requests' = Append(requests, create_args(sample_dataset[w]))
          /\ w_trace' = [w_trace EXCEPT ![w] = <<>>]
          /\ w_consumed' = [w_consumed EXCEPT ![w] = <<>>]
          /\ w_stage' = [w_stage EXCEPT ![w] = "stream"]
    /\ UNCHANGED <<pc, dataset, sample_dataset, acc, calls, filtered_dataset, disk,
                   seqvars, arrived>>
    /\ UNCHANGED fvars

\* Worker w: create raises; the exception reaches the parent, Dataset.map
\* raises and the other workers are stopped.
WRequestFails ==
    /\ pc = "distill_par"
    /\ \E w \in Workers :
          /\ w_stage[w] = "request"
          /\ requests' = Append(requests, create_args(sample_dataset[w]))
    /\ pc' = "aborted"
    /\ UNCHANGED <<dataset, sample_dataset, acc, calls, filtered_dataset, disk,
                   seqvars, wvars>>
    /\ UNCHANGED fvars

\* The row worker w returns, received by the parent.
WCollect(w, row_trace) ==
    arrived' = Append(arrived, [worker |-> w,
                                row |-> Merge(sample_dataset[w], [reasoning_trace |-> row_trace])])

\* A text delta added to the local of every worker that is streaming, as if
\* the accumulator were one object shared by the workers.
WNextChunk_SharedAccumulator ==
    /\ pc = "distill_par"
    /\ \E w \in Workers :
          /\ w_stage[w] = "stream"
          /\ Len(w_consumed[w]) < MaxChunks
          /\ \E chunk \in {c \in Chunks : c.choices > 0} :
                /\ w_consumed' = [w_consumed EXCEPT ![w] = Append(@, chunk)]
                /\ IF chunk.content # None
                   THEN /\ w_trace' = [v \in Workers |->
                                          IF w_stage[v] = "stream" THEN w_trace[v] \o chunk.content
                                          ELSE w_trace[v]]
                        /\ acc' = [acc EXCEPT ![w] = "STREAMING"]
                   ELSE UNCHANGED <<w_trace, acc>>
    /\ UNCHANGED <<pc, dataset, sample_dataset, requests, calls, filtered_dataset,
                   disk, seqvars, w_stage, arrived>>
    /\ UNCHANGED fvars

\* Worker w: one pass of its for loop over a chunk whose choices[0] exists.
WNextChunk ==
    /\ pc = "distill_par"
    /\ \E w \in Workers :
          /\ w_stage[w] = "stream"
          /\ Len(w_consumed[w]) < MaxChunks
          /\ \E chunk \in {c \in Chunks : c.choices > 0} :
                /\ w_consumed' = [w_consumed EXCEPT ![w] = Append(@, chunk)]
                /\ IF chunk.content # None
                   THEN /\ w_trace' = [w_trace EXCEPT ![w] = @ \o chunk.content]
                        /\ acc' = [acc EXCEPT ![w] = "STREAMING"]
                   ELSE UNCHANGED <<w_trace, acc>>
    /\ UNCHANGED <<pc, dataset, sample_dataset, requests, calls, filtered_dataset,
                   disk, seqvars, w_stage, arrived>>
    /\ UNCHANGED fvars

\* Worker w: its stream is exhausted, return reasoning_trace; the locals of
\* the call end with it.
WStreamEnd ==
    /\ pc = "distill_par"
    /\ \E w \in Workers :
          /\ w_stage[w] = "stream"
          /\ WCollect(w, w_trace[w])
          /\ acc' = [acc EXCEPT ![w] = "COMPLETE"]
          /\ w_stage' = [w_stage EXCEPT ![w] = "returned"]
          /\ w_trace' = [w_trace EXCEPT ![w] = <<>>]
          /\ w_consumed' = [w_consumed EXCEPT ![w] = <<>>]
    /\ UNCHANGED <<pc, dataset, sample_dataset, requests, calls, filtered_dataset,
                   disk, seqvars>>
    /\ UNCHANGED fvars

\* Worker w: its stream raises, or delivers a chunk with an empty choices
\* list; the except branch returns reasoning_trace.
WStreamError ==
    /\ pc = "distill_par"
    /\ \E w \in Workers :
          /\ w_stage[w] = "stream"
          /\ WCollect(w, w_trace[w])
          /\ acc' = [acc EXCEPT ![w] = "TRUNCATED"]
          /\ w_stage' = [w_stage EXCEPT ![w] = "returned"]
          /\ w_trace' = [w_trace EXCEPT ![w] = <<>>]
          /\ w_consumed' = [w_consumed EXCEPT ![w] = <<>>]
    /\ UNCHANGED <<pc, dataset, sample_dataset, requests, calls, filtered_dataset,
                   disk, seqvars>>
    /\ UNCHANGED fvars

\* The row of shard i among the rows received.
ArrivedRow(i) == arrived[CHOOSE k \in 1..Len(arrived) : arrived[k].worker = i].row

\* Dataset.map returning the rows in the order in which they arrived.
WJoin_ArrivalOrder ==
    /\ pc = "distill_par"
    /\ \A w \in Workers : w_stage[w] = "returned"
    /\ sample_dataset' = [k \in 1..Len(arrived) |-> arrived[k].row]
    /\ pc' = "validate"
    /\ w_stage' = [w \in Workers |-> "idle"]
    /\ UNCHANGED <<dataset, acc, requests, calls, filtered_dataset, disk, seqvars,
                   w_trace, w_consumed, arrived>>
    /\ UNCHANGED fvars

\* Every worker has returned: Dataset.map puts the shards together in shard
\* order and the notebook assigns the result to sample_dataset.
WJoin ==
    /\ pc = "distill_par"
    /\ \A w \in Workers : w_stage[w] = "returned"
    /\ sample_dataset' = [i \in Rows |-> ArrivedRow(i)]
    /\ pc' = "validate"
    /\ w_stage' = [w \in Workers |-> "idle"]
    /\ UNCHANGED <<dataset, acc, requests, calls, filtered_dataset, disk, seqvars,
                   w_trace, w_consumed, arrived>>
    /\ UNCHANGED fvars

NextWorkers ==
    \/ LoadDataset
    \/ LoadFails
    \/ SelectSamplePar
    \/ WRequest
    \/ WRequestFails
    \/ WNextChunk
    \/ WStreamEnd
    \/ WStreamError
    \/ WJoin
    \/ Validate
    \/ FilterDataset
    \/ SaveToDisk

\* The run with num_proc raised to the number of rows.
SpecWorkers == Init /\ [][NextWorkers]_vars

----------------------------------------------------------------------------
(* The validator on rows with decimal and integer answers *)

\* Ground-truth answers of the corpus and answers a trace puts in \boxed{}.
Dec98 == <<"9", ".", "8">>
Dec980 == <<"9", ".", "8", "0">>
Int180 == <<"1", "8", "0">>
Int185 == <<"1", "8", "5">>

Boxed(x) == <<"\n">> \o BOXED_PREFIX \o x \o <<"}">>

\* Traces the distillation map can return: a well-formed think section
\* followed by a boxed answer, or the boxed answer alone.
AnswerTraces ==
    {OPEN_TAG \o CLOSE_TAG \o Boxed(x) : x \in {Dec98, Dec980, Int180, Int185}}
        \cup {Boxed(x) : x \in {Dec98, Dec980, Int180, Int185}}

AnswerCorpora ==
    {<<Record("p1", a), Record("p2", b), Record("p3", <<"5">>)>> : a, b \in {Dec98, Int180}}

\* The run at the moment the distillation map has returned: every row has a
\* trace and the validating map starts.
InitAnswer ==
    /\ pc = "validate"
    /\ dataset \in AnswerCorpora
    /\ \E t1, t2 \in AnswerTraces :
          sample_dataset = <<Merge(dataset[1], [reasoning_trace |-> t1]),
                             Merge(dataset[2], [reasoning_trace |-> t2])>>
    /\ cur = 1
    /\ stage = "returned"
    /\ reasoning_trace = <<>>
    /\ consumed = <<>>
    /\ out = <<>>
    /\ acc = [i \in Rows |-> "COMPLETE"]
    /\ requests = [i \in Rows |-> create_args(dataset[i])]
    /\ calls = [i \in Rows |-> <<>>]
    /\ filtered_dataset = <<>>
    /\ disk = <<>>
    /\ w_stage = [w \in Workers |-> "idle"]
    /\ w_trace = [w \in Workers |-> <<>>]
    /\ w_consumed = [w \in Workers |-> <<>>]
    /\ arrived = <<>>
    /\ inputs = NoInputs
    /\ code_freeze = "idle"
    /\ release_branch = ""
    /\ freeze_tags = "idle"
    /\ step = "none"
    /\ checkout_ref = ""
    /\ pinned = {}
    /\ pull_requests = <<>>

NextAnswer ==
    \/ Validate
    \/ FilterDataset
    \/ SaveToDisk

SpecAnswer == InitAnswer /\ [][NextAnswer]_vars

----------------------------------------------------------------------------
(* The "Code freeze" workflow *)

\* The inputs of a dispatch: type_of_release is a choice of major and minor,
\* freeze-commit a ref (default main), mcore_version a ref, dry-run a boolean.
Inputs ==
    [type_of_release : {"major", "minor"},
     freeze_commit : {"main", "0a1b2c3"},
     mcore_version : {"core_r0.13.0", "core_r0.14.0"},
     dry_run : BOOLEAN]

\* The release branch the reusable workflow _code_freeze.yml puts out.
ReleaseBranch(type_of_release) == IF type_of_release = "major" THEN "r3.0.0" ELSE "r2.5.0"

\* ${{ c && a || b }}: a when c holds and a is not the empty string, else b.
AndOr(c, a, b) == IF c /\ a # "" THEN a ELSE b

StepsInOrder == <<"checkout", "pin_notebooks", "pin_mcore", "show_status", "create_pr", "done">>

\* The step after s.
After(s) == StepsInOrder[(CHOOSE k \in 1..Len(StepsInOrder) : StepsInOrder[k] = s) + 1]

\* on: workflow_dispatch; the job code-freeze needs no other job and starts.
Dispatch ==
    /\ code_freeze = "idle"
    /\ inputs' \in Inputs
    /\ code_freeze' = "in_progress"
    /\ UNCHANGED <<release_branch, freeze_tags, step, checkout_ref, pinned, pull_requests>>
    /\ UNCHANGED nbvars

\* The called workflow ends with success and sets its output release-branch.
CodeFreezeSucceeds ==
    /\ code_freeze = "in_progress"
    /\ code_freeze' = "success"
    /\ release_branch' = ReleaseBranch(inputs.type_of_release)
    /\ UNCHANGED <<inputs, freeze_tags, step, checkout_ref, pinned, pull_requests>>
    /\ UNCHANGED nbvars

\* The called workflow fails or is cancelled.
CodeFreezeFails ==
    /\ code_freeze = "in_progress"
    /\ code_freeze' \in {"failure", "cancelled"}
    /\ UNCHANGED <<inputs, release_branch, freeze_tags, step, checkout_ref, pinned,
                   pull_requests>>
    /\ UNCHANGED nbvars

\* needs: [code-freeze] with no if: the job is skipped when the job it needs
\* did not succeed.
FreezeTagsSkipped ==
    /\ freeze_tags = "idle"
    /\ code_freeze \in {"failure", "cancelled"}
    /\ freeze_tags' = "skipped"
    /\ UNCHANGED <<inputs, code_freeze, release_branch, step, checkout_ref, pinned,
                   pull_requests>>
    /\ UNCHANGED nbvars

\* A freeze-tags job that does not wait for code-freeze to succeed.
FreezeTagsQueued_WithoutNeeds ==
    /\ freeze_tags = "idle"
    /\ code_freeze # "idle"
    /\ freeze_tags' = "waiting"
    /\ UNCHANGED <<inputs, code_freeze, release_branch, step, checkout_ref, pinned,
                   pull_requests>>
    /\ UNCHANGED nbvars

\* needs: [code-freeze]: the job is taken up once code-freeze has succeeded,
\* and waits for its environment.
FreezeTagsQueued ==
    /\ freeze_tags = "idle"
    /\ code_freeze = "success"
    /\ freeze_tags' = "waiting"
    /\ UNCHANGED <<inputs, code_freeze, release_branch, step, checkout_ref, pinned,
                   pull_requests>>
    /\ UNCHANGED nbvars

\* environment: main lets the job run; its first step is next.
EnvironmentApproves ==
    /\ freeze_tags = "waiting"
    /\ freeze_tags' = "in_progress"
    /\ step' = "checkout"
    /\ UNCHANGED <<inputs, code_freeze, release_branch, checkout_ref, pinned, pull_requests>>
    /\ UNCHANGED nbvars

\* environment: main rejects the job: it fails with no step run.
EnvironmentRejects ==
    /\ freeze_tags = "waiting"
    /\ freeze_tags' = "failure"
    /\ UNCHANGED <<inputs, code_freeze, release_branch, step, checkout_ref, pinned,
                   pull_requests>>
    /\ UNCHANGED nbvars

\* Checkout repository, with ref: dry-run == true && freeze-commit ||
\* release-branch.
Checkout ==
    /\ freeze_tags = "in_progress"
    /\ step = "checkout"
    /\ checkout_ref' = AndOr(inputs.dry_run = TRUE, inputs.freeze_commit, release_branch)
    /\ step' = After(step)
    /\ UNCHANGED <<inputs, code_freeze, release_branch, freeze_tags, pinned, pull_requests>>
    /\ UNCHANGED nbvars

\* Pin branch name in Notebooks: sed over tutorials/*.ipynb in the checkout.
PinNotebooks ==
    /\ freeze_tags = "in_progress"
    /\ step = "pin_notebooks"
    /\ pinned' = pinned \cup {[file |-> "tutorials", value |-> release_branch]}
    /\ step' = After(step)
    /\ UNCHANGED <<inputs, code_freeze, release_branch, freeze_tags, checkout_ref,
                   pull_requests>>
    /\ UNCHANGED nbvars

\* Pin MCore in Dockerfile: sed over docker/Dockerfile.ci in the checkout.
PinMCore ==
    /\ freeze_tags = "in_progress"
    /\ step = "pin_mcore"
    /\ pinned' = pinned \cup {[file |-> "docker/Dockerfile.ci", value |-> inputs.mcore_version]}
    /\ step' = After(step)
    /\ UNCHANGED <<inputs, code_freeze, release_branch, freeze_tags, checkout_ref,
                   pull_requests>>
    /\ UNCHANGED nbvars

\* Show status: git status.
ShowStatus ==
    /\ freeze_tags = "in_progress"
    /\ step = "show_status"
    /\ step' = After(step)
    /\ UNCHANGED <<inputs, code_freeze, release_branch, freeze_tags, checkout_ref, pinned,
                   pull_requests>>
    /\ UNCHANGED nbvars

\* The pull request of the step Create PR.
FreezePR ==
    [base |-> release_branch, branch |-> "ci/freeze-tags-" \o release_branch]

\* Create PR without its if: the step runs in a dry run too.
CreatePR_Unconditional ==
    /\ freeze_tags = "in_progress"
    /\ step = "create_pr"
    /\ \/ pull_requests' = Append(pull_requests, FreezePR)
       \/ UNCHANGED pull_requests
    /\ step' = After(step)
    /\ freeze_tags' = "success"
    /\ UNCHANGED <<inputs, code_freeze, release_branch, checkout_ref, pinned>>
    /\ UNCHANGED nbvars

\* Create PR, if: inputs.dry-run != true. The action opens a pull request
\* from the edits in the checkout, or none when the checkout has no change;
\* in a dry run the step is skipped. It is the last step of the job.
CreatePR ==
    /\ freeze_tags = "in_progress"
    /\ step = "create_pr"
    /\ IF inputs.dry_run # TRUE
       THEN \/ pull_requests' = Append(pull_requests, FreezePR)
            \/ UNCHANGED pull_requests
       ELSE UNCHANGED pull_requests
    /\ step' = After(step)
    /\ freeze_tags' = "success"
    /\ UNCHANGED <<inputs, code_freeze, release_branch, checkout_ref, pinned>>
    /\ UNCHANGED nbvars

\* A step that runs fails: the steps after it, having no if of their own or
\* only a condition on the inputs, do not run, and the job fails.
StepFails ==
    /\ freeze_tags = "in_progress"
    /\ step \in {"checkout", "pin_notebooks", "pin_mcore", "show_status"}
          \/ (step = "create_pr" /\ inputs.dry_run # TRUE)
    /\ freeze_tags' = "failure"
    /\ UNCHANGED <<inputs, code_freeze, release_branch, step, checkout_ref, pinned,
                   pull_requests>>
    /\ UNCHANGED nbvars

NextFreeze ==
    \/ Dispatch
    \/ CodeFreezeSucceeds
    \/ CodeFreezeFails
    \/ FreezeTagsSkipped
    \/ FreezeTagsQueued
    \/ EnvironmentApproves
    \/ EnvironmentRejects
    \/ Checkout
    \/ PinNotebooks
    \/ PinMCore
    \/ ShowStatus
    \/ CreatePR
    \/ StepFails

SpecFreeze == Init /\ [][NextFreeze]_vars

\* What the stream of the current request does next: it delivers a chunk,
\* signals end-of-message, or fails.
StreamStep == NextChunk \/ StreamEnd \/ StreamError \/ BadChunk

\* The run under the assumption that a stream being read does not stay
\* silent for ever: the response is bounded by max_tokens and the request by
\* its timeout.
SpecFair == Spec /\ WF_vars(StreamStep)

----------------------------------------------------------------------------
(* Properties *)

\* The rows the validator has returned so far.
Validated ==
    IF pc = "validate" THEN out
    ELSE IF pc \in {"filter", "save", "done"} THEN sample_dataset
    ELSE <<>>

\* Record i has a row carrying its trace, in the map's buffer or in
\* sample_dataset.
HasRow(i) ==
    \/ pc = "distill" /\ i <= Len(out)
    \/ pc \in {"validate", "filter", "save", "done"} /\ i <= Len(sample_dataset)
    \/ pc = "aborted" /\ i <= Len(out)

RowOf(i) == IF pc \in {"distill", "aborted"} THEN out[i] ELSE sample_dataset[i]

Chunk(c) == [choices |-> 1, content |-> c]

\* C1: when the stream fails after delivering fragments f1..fk, what
\* process_streaming_response returns is exactly f1 + ... + fk, and the
\* failure does not leave the function: the run is never aborted from inside
\* the streaming loop.
C1_TruncatedReturnsReceived ==
    /\ (pc = "distill" /\ stage = "returned" /\ acc[cur] = "TRUNCATED") =>
          /\ Len(out) = cur
          /\ out[cur].reasoning_trace = Concat(consumed)
    /\ pc = "aborted" => stage = "request"

\* C1 witness: two text fragments were delivered, then the transport failed.
C1_Witness ==
    /\ pc = "distill"
    /\ stage = "returned"
    /\ acc[cur] = "TRUNCATED"
    /\ consumed = <<Chunk(OPEN_TAG), Chunk(BoxedFour)>>
    /\ out[cur].reasoning_trace = OPEN_TAG \o BoxedFour

\* C2: only a failure to load the corpus terminates the run; a failure while
\* a record is processed never does, so an aborted run has issued no request.
C2_OnlyLoadFailureAborts == pc = "aborted" => requests = <<>>

\* C3: the accumulated text is the concatenation, in arrival order, of the
\* text fragments of the chunks consumed so far, and so is the returned trace.
C3_AccumulatedIsConcat ==
    (pc = "distill" /\ stage # "request") =>
        /\ reasoning_trace = Concat(consumed)
        /\ Len(reasoning_trace) <= Len(Concat(consumed))
        /\ stage = "returned" =>
              /\ Len(out) = cur
              /\ out[cur].reasoning_trace = Concat(consumed)

\* C3 witness: two different fragments with a chunk without text between them.
C3_Witness ==
    /\ pc = "distill"
    /\ stage = "returned"
    /\ acc[cur] = "COMPLETE"
    /\ consumed = <<Chunk(OPEN_TAG), Chunk(None), Chunk(CLOSE_TAG)>>
    /\ out[cur].reasoning_trace = OPEN_TAG \o CLOSE_TAG

\* The positions at which sub occurs in s.
Occurrences(s, sub) == {i \in 1..Len(s) : OccursAt(s, sub, i)}

\* The format the validator is to accept: <think> at position 0, some
\* </think> after it with any characters (line breaks too) between, and each
\* delimiter exactly once in the whole text.
FormatOK(t) ==
    LET opens == Occurrences(t, OPEN_TAG)
        closes == Occurrences(t, CLOSE_TAG)
    IN  /\ opens = {1}
        /\ Cardinality(closes) = 1
        /\ \A j \in closes : j > Len(OPEN_TAG)

\* C4: check_format accepts a trace if and only if it has that format; a row
\* is given INVALID_FORMAT exactly when its trace does not have it.
C4_CheckFormatIffFormat ==
    /\ check_format(reasoning_trace) <=> FormatOK(reasoning_trace)
    /\ \A i \in 1..Len(Validated) :
          (Validated[i].filtered_reason # "INVALID_FORMAT")
              <=> FormatOK(Validated[i].reasoning_trace)

\* C4 witness: a trace with a line break inside the thinking section passes,
\* one with two <think> fails.
C4_Witness ==
    /\ pc = "filter"
    /\ sample_dataset[1].reasoning_trace = OPEN_TAG \o BoxedFour \o CLOSE_TAG
    /\ sample_dataset[1].filtered_reason # "INVALID_FORMAT"
    /\ sample_dataset[2].reasoning_trace = OPEN_TAG \o OPEN_TAG \o CLOSE_TAG
    /\ sample_dataset[2].filtered_reason = "INVALID_FORMAT"

\* C5: in every row the validator returns, filtered is false exactly when
\* filtered_reason is VALID, and the reason is one of the three codes.
C5_FilteredIffNotValid ==
    \A i \in 1..Len(Validated) :
        /\ (Validated[i].filtered = FALSE) <=> (Validated[i].filtered_reason = "VALID")
        /\ Validated[i].filtered_reason \in {"VALID", "INVALID_FORMAT", "INCORRECT_ANSWER"}

\* C5 witness: a kept row beside a row discarded for its answer.
C5_Witness ==
    /\ pc = "filter"
    /\ sample_dataset[1].filtered = FALSE
    /\ sample_dataset[1].filtered_reason = "VALID"
    /\ sample_dataset[2].filtered = TRUE
    /\ sample_dataset[2].filtered_reason = "INCORRECT_ANSWER"

\* C6: the format check runs first, and when it fails the row is
\* INVALID_FORMAT and the answer check is not invoked, whatever it would say.
C6_FormatFirstShortCircuit ==
    \A i \in 1..Len(Validated) :
        /\ calls[i] # <<>>
        /\ calls[i][1] = "check_format"
        /\ ~check_format(Validated[i].reasoning_trace) =>
              /\ Validated[i].filtered = TRUE
              /\ Validated[i].filtered_reason = "INVALID_FORMAT"
              /\ calls[i] = <<"check_format">>

\* C6 witness: a correct boxed answer without think tags is INVALID_FORMAT.
C6_Witness ==
    /\ pc = "filter"
    /\ sample_dataset[1].answer = <<"4">>
    /\ sample_dataset[1].reasoning_trace = BoxedFour
    /\ calculate_answer(sample_dataset[1].reasoning_trace, sample_dataset[1].answer)
    /\ sample_dataset[1].filtered = TRUE
    /\ sample_dataset[1].filtered_reason = "INVALID_FORMAT"
    /\ calls[1] = <<"check_format">>

\* C7: a row whose trace passes the format check is VALID exactly when an
\* answer is extracted and judged equal to the ground truth, and is
\* INCORRECT_ANSWER otherwise; the answer check never ends the run.
C7_ValidIffAnswerVerified ==
    /\ \A i \in 1..Len(Validated) :
          LET row == Validated[i]
              extracted == parse(row.reasoning_trace)
              good == extracted # <<>> /\ verify(extracted, row.answer)
          IN  check_format(row.reasoning_trace) =>
                  /\ good => row.filtered_reason = "VALID" /\ row.filtered = FALSE
                  /\ ~good => row.filtered_reason = "INCORRECT_ANSWER" /\ row.filtered = TRUE
    /\ pc = "aborted" => calls = [i \in Rows |-> <<>>]

\* C7 witness: a well-formed row whose boxed answer is verified, beside a
\* well-formed row from which nothing is extracted.
C7_Witness ==
    /\ pc = "filter"
    /\ sample_dataset[1].reasoning_trace = OPEN_TAG \o CLOSE_TAG \o BoxedFour
    /\ sample_dataset[1].answer = <<"4">>
    /\ sample_dataset[1].filtered_reason = "VALID"
    /\ sample_dataset[2].reasoning_trace = OPEN_TAG \o CLOSE_TAG
    /\ parse(sample_dataset[2].reasoning_trace) = <<>>
    /\ sample_dataset[2].filtered_reason = "INCORRECT_ANSWER"

\* C8: once the distillation map has returned, the intermediate dataset holds
\* exactly one row for every selected record, the i-th for the i-th; while
\* the map runs its buffer holds one row for each record whose stream ended.
C8_OneTracePerRecord ==
    /\ pc = "distill" =>
          /\ Len(out) = (IF stage = "returned" THEN cur ELSE cur - 1)
          /\ \A i \in 1..Len(out) :
                Cardinality({j \in 1..Len(out) : out[j].problem = dataset[i].problem}) = 1
    /\ pc \in {"validate", "filter"} =>
          /\ Len(sample_dataset) = NumRecords
          /\ \A i \in Rows :
                /\ Cardinality({j \in 1..Len(sample_dataset) :
                                   sample_dataset[j].problem = dataset[i].problem}) = 1
                /\ "reasoning_trace" \in DOMAIN sample_dataset[i]

\* C8 witness: a truncated stream and a complete one, a row for each.
C8_Witness ==
    /\ pc = "validate"
    /\ cur = 1
    /\ acc = [i \in Rows |-> IF i = 1 THEN "TRUNCATED" ELSE "COMPLETE"]
    /\ Len(sample_dataset) = NumRecords
    /\ sample_dataset[1].problem = dataset[1].problem
    /\ sample_dataset[2].problem = dataset[2].problem

\* The moves the accumulator of a record is said to make.
SpecMoves ==
    {<<"IDLE", "STREAMING">>, <<"STREAMING", "COMPLETE">>, <<"STREAMING", "TRUNCATED">>}

\* C9 as stated: the accumulator moves only IDLE -> STREAMING ->
\* {COMPLETE | TRUNCATED}; no terminal state is reached from IDLE.
C9_OnlySpecMoves ==
    [][\A i \in Rows : acc'[i] # acc[i] => <<acc[i], acc'[i]>> \in SpecMoves]_vars

\* C9 amended: besides those moves a terminal state is also entered straight
\* from IDLE, when the stream ends or fails before any text fragment; a
\* terminal state is never left; STREAMING is entered on the first text
\* fragment, COMPLETE only at the end of the stream.
C9_MovesWithIdleExits ==
    [][\A i \in Rows :
          /\ acc'[i] # acc[i] =>
                /\ <<acc[i], acc'[i]>> \in
                       SpecMoves \cup {<<"IDLE", "COMPLETE">>, <<"IDLE", "TRUNCATED">>}
                /\ i = cur /\ pc = "distill" /\ stage = "stream"
                /\ acc'[i] = "STREAMING" =>
                       Concat(consumed) = <<>> /\ Concat(consumed') # <<>>
                /\ acc[i] = "IDLE" => Concat(consumed) = <<>>
                /\ acc'[i] \in {"COMPLETE", "TRUNCATED"} => stage' = "returned"
                /\ acc'[i] = "COMPLETE" => consumed' = consumed
          /\ (i = cur /\ pc = "distill" /\ stage = "stream" /\ stage' = "returned") =>
                acc'[i] \in {"COMPLETE", "TRUNCATED"}]_vars

\* C9 witness: the first record went through STREAMING to TRUNCATED, the
\* second went from IDLE to COMPLETE on an empty stream.
C9_Witness ==
    /\ pc = "distill"
    /\ stage = "returned"
    /\ cur = 2
    /\ acc = [i \in Rows |-> IF i = 1 THEN "TRUNCATED" ELSE "COMPLETE"]
    /\ out[1].reasoning_trace # <<>>
    /\ consumed = <<>>

\* What the pipeline adds to a problem record.
Added(row) == [f \in DOMAIN row \ {"problem", "answer"} |-> row[f]]

\* C10 as stated: in the rows that reach the validator a truncated trace can
\* be told from a complete one.
C10_TruncatedDistinguishable ==
    pc = "validate" =>
        \A i, j \in Rows :
            (acc[i] = "TRUNCATED" /\ acc[j] = "COMPLETE") =>
                Added(sample_dataset[i]) # Added(sample_dataset[j])

\* C10 amended: after a failure in the stream the record is recovered
\* locally: its row exists, holds the partial content and goes through the
\* validator; the row is the problem record plus reasoning_trace alone and
\* carries no mark of the truncation.
C10_TruncatedKeptUnmarked ==
    \A i \in Rows :
        acc[i] = "TRUNCATED" =>
            /\ HasRow(i)
            /\ DOMAIN RowOf(i) \ {"filtered", "filtered_reason"}
                   = {"problem", "answer", "reasoning_trace"}
            /\ (pc = "distill" /\ stage = "returned" /\ i = cur) =>
                   RowOf(i) = Merge(sample_dataset[i], [reasoning_trace |-> Concat(consumed)])
            /\ pc \in {"filter", "save", "done"} =>
                   /\ calls[i] # <<>>
                   /\ "filtered_reason" \in DOMAIN RowOf(i)

\* C10 witness: a truncated row with partial content has been validated, and
\* its added fields equal those of the complete row beside it.
C10_Witness ==
    /\ pc = "filter"
    /\ acc = [i \in Rows |-> IF i = 1 THEN "TRUNCATED" ELSE "COMPLETE"]
    /\ sample_dataset[1].reasoning_trace = OPEN_TAG
    /\ sample_dataset[2].reasoning_trace = OPEN_TAG
    /\ calls[1] = <<"check_format">>
    /\ Added(sample_dataset[1]) = Added(sample_dataset[2])


\* C11: a record whose stream was aborted before a closing </think> was
\* received, even before any fragment, goes through the validator with its
\* partial content and comes out filtered, with reason INVALID_FORMAT.
C11_AbortedBeforeCloseIsInvalidFormat ==
    \A i \in Rows :
        (acc[i] = "TRUNCATED" /\ HasRow(i) /\ Occurrences(RowOf(i).reasoning_trace, CLOSE_TAG) = {}) =>
            /\ pc \in {"filter", "save", "done"} => calls[i] # <<>>
            /\ i <= Len(Validated) =>
                  /\ Validated[i].filtered = TRUE
                  /\ Validated[i].filtered_reason = "INVALID_FORMAT"

\* C11 witness: one stream failed before any fragment, the other after
\* <think> and a boxed answer; both rows were validated as INVALID_FORMAT.
C11_Witness ==
    /\ pc = "filter"
    /\ acc = [i \in Rows |-> "TRUNCATED"]
    /\ sample_dataset[1].reasoning_trace = <<>>
    /\ sample_dataset[2].reasoning_trace = OPEN_TAG \o BoxedFour
    /\ \A i \in Rows : sample_dataset[i].filtered_reason = "INVALID_FORMAT"

\* The rows of the sequence rows that are not filtered, in order.
RECURSIVE Kept(_)
Kept(rows) ==
    IF rows = <<>> THEN <<>>
    ELSE IF Head(rows).filtered_reason = "VALID" THEN <<Head(rows)>> \o Kept(Tail(rows))
    ELSE Kept(Tail(rows))

\* C12: after validation the intermediate dataset still holds every record,
\* each with its reason code; nothing is removed before the filter step; the
\* filtered dataset and what is saved are exactly the rows with filtered =
\* false (reason VALID).
C12_OnlyFilterStepRemoves ==
    /\ pc \in {"filter", "save", "done"} =>
          /\ Len(sample_dataset) = NumRecords
          /\ \A i \in Rows :
                /\ sample_dataset[i].problem = dataset[i].problem
                /\ sample_dataset[i].filtered_reason \in {"VALID", "INVALID_FORMAT", "INCORRECT_ANSWER"}
    /\ pc \in {"save", "done"} =>
          /\ filtered_dataset = Kept(sample_dataset)
          /\ \A k \in 1..Len(filtered_dataset) : filtered_dataset[k].filtered = FALSE
    /\ pc \notin {"save", "done"} => filtered_dataset = <<>>
    /\ pc = "done" => disk = Kept(sample_dataset)
    /\ pc # "done" => disk = <<>>

\* C12 witness: of a VALID row and a discarded one, only the first is saved.
C12_Witness ==
    /\ pc = "done"
    /\ sample_dataset[1].filtered_reason = "VALID"
    /\ sample_dataset[2].filtered_reason = "INCORRECT_ANSWER"
    /\ Len(sample_dataset) = NumRecords
    /\ disk = <<sample_dataset[1]>>


\* C13: a stream that is being read eventually ends or fails, and then the
\* accumulator of its record is in a terminal state; in both terminal states
\* the record has a row whose reasoning_trace is a string, possibly empty.
C13_StreamEndsInTerminalWithTrace ==
    /\ \A i \in Rows :
          (pc = "distill" /\ cur = i /\ stage = "stream")
              ~> (acc[i] \in {"COMPLETE", "TRUNCATED"} /\ stage = "returned")
    /\ [](\A i \in Rows :
             acc[i] \in {"COMPLETE", "TRUNCATED"} =>
                 /\ HasRow(i)
                 /\ RowOf(i).reasoning_trace # None
                 /\ DOMAIN RowOf(i).reasoning_trace = 1..Len(RowOf(i).reasoning_trace))

\* C13 witness: one accumulator ended TRUNCATED with an empty trace, the
\* other COMPLETE with text.
C13_Witness ==
    /\ pc = "distill"
    /\ stage = "returned"
    /\ cur = NumRecords
    /\ acc = [i \in Rows |-> IF i = 1 THEN "TRUNCATED" ELSE "COMPLETE"]
    /\ out[1].reasoning_trace = <<>>
    /\ out[2].reasoning_trace = OPEN_TAG \o CLOSE_TAG


\* What processing one record alone gives for the chunks cs of its stream:
\* the row of the map, then the row of the validator.
AloneRow(record, cs) == Merge(record, [reasoning_trace |-> Concat(cs)])

\* C14: with several workers, under every interleaving of their steps, the
\* text a worker holds is the concatenation of the chunks of its own stream
\* only; the row it returns, the row sample_dataset has for it after the map,
\* and the verdict the validator gives that row are the ones that processing
\* the record alone gives for the same stream.
C14_WorkersShareNothing ==
    [][/\ pc' = "distill_par" =>
             \A w \in Workers : w_trace'[w] = Concat(w_consumed'[w])
       /\ \A w \in Workers :
             (pc = "distill_par" /\ w_stage[w] = "stream" /\ w_stage'[w] = "returned") =>
                 /\ arrived' = Append(arrived, [worker |-> w,
                                                row |-> AloneRow(dataset[w], w_consumed[w])])
                 /\ \A v \in Workers \ {w} :
                       /\ w_trace'[v] = w_trace[v]
                       /\ w_consumed'[v] = w_consumed[v]
       /\ (pc = "distill_par" /\ pc' = "validate") =>
             \A i \in Rows :
                 \E k \in 1..Len(arrived) :
                     /\ arrived[k].worker = i
                     /\ sample_dataset'[i] = arrived[k].row
                     /\ sample_dataset'[i].problem = dataset[i].problem
       /\ (pc = "validate" /\ cur' # cur) =>
             LET row == IF pc' = "validate" THEN out'[cur] ELSE sample_dataset'[cur]
             IN  /\ row = filter_reasoning_trace(sample_dataset[cur]).ret
                 /\ row.filtered =
                        ~(FormatOK(sample_dataset[cur].reasoning_trace)
                            /\ calculate_answer(sample_dataset[cur].reasoning_trace,
                                                sample_dataset[cur].answer))
    ]_vars

\* C14 witness: both workers stream at once, each holding a different text,
\* the second worker ahead of the first.
C14_Witness ==
    /\ pc = "distill_par"
    /\ w_stage[1] = "stream"
    /\ w_stage[2] = "stream"
    /\ w_consumed[1] = <<Chunk(OPEN_TAG)>>
    /\ w_consumed[2] = <<Chunk(CLOSE_TAG), Chunk(BoxedFour)>>
    /\ w_trace[1] = OPEN_TAG
    /\ w_trace[2] = CLOSE_TAG \o BoxedFour


\* The requests whose create call returned a stream that has not ended yet:
\* those issued, less the streams that reached a terminal state, less the
\* request whose create call raised.
InFlight ==
    Len(requests)
        - Cardinality({i \in Rows : acc[i] \in {"COMPLETE", "TRUNCATED"}})
        - (IF pc = "aborted" /\ requests # <<>> THEN 1 ELSE 0)

\* C15: the single worker of the map has at most one inference request in
\* flight at every moment, so the number of requests in flight never exceeds
\* num_proc; a request is in flight exactly while its stream is being read.
C15_InFlightAtMostNumProc ==
    /\ InFlight <= NumProc
    /\ InFlight = (IF pc = "distill" /\ stage = "stream" THEN 1 ELSE 0)

\* C15 witness: the second request is in flight after the stream of the first
\* has ended.
C15_Witness ==
    /\ pc = "distill"
    /\ cur = 2
    /\ stage = "stream"
    /\ Len(requests) = 2
    /\ acc[1] = "COMPLETE"
    /\ InFlight = NumProc


\* The position of a problem in the corpus (the problems of a corpus differ).
IndexOf(problem) == CHOOSE i \in 1..Len(dataset) : dataset[i].problem = problem

\* C16: whatever the order in which the workers finish, the i-th row of the
\* dataset the map returns, and of the validated dataset, is the row of the
\* i-th problem record, and the rows of the final dataset are rows of the
\* input in the input's order.
C16_OutputPreservesInputOrder ==
    /\ pc \in {"validate", "filter", "save", "done"} =>
          /\ Len(sample_dataset) = NumRecords
          /\ \A i \in Rows :
                /\ sample_dataset[i].problem = dataset[i].problem
                /\ sample_dataset[i].answer = dataset[i].answer
          /\ \A i \in 1..Len(Validated) : Validated[i].problem = dataset[i].problem
    /\ pc \in {"save", "done"} =>
          /\ \A j \in 1..Len(filtered_dataset) :
                \E i \in Rows : filtered_dataset[j] = sample_dataset[i]
          /\ \A j, k \in 1..Len(filtered_dataset) :
                j < k => IndexOf(filtered_dataset[j].problem)
                            < IndexOf(filtered_dataset[k].problem)
    /\ pc = "done" => disk = filtered_dataset

\* C16 witness: the second worker returned before the first, both rows are
\* valid, and the saved dataset has them in input order.
C16_Witness ==
    /\ pc = "done"
    /\ Len(arrived) = 2
    /\ arrived[1].worker = 2
    /\ arrived[2].worker = 1
    /\ Len(filtered_dataset) = 2
    /\ filtered_dataset[1].problem = dataset[1].problem
    /\ filtered_dataset[2].problem = dataset[2].problem


Terminal == {"COMPLETE", "TRUNCATED"}

\* C17: for every record the request is issued before its stream is read,
\* the validator is called on a record only when the record's accumulator is
\* already terminal, and the stages after the distillation map change nothing
\* of the stages before them: no request, no accumulator, no corpus row and
\* no trace changes once validation has begun, and no validator call happens
\* once filtering has begun.
C17_DataFlowsOneWay ==
    [][/\ (pc' = "distill" /\ stage' = "stream") => Len(requests') = cur'
       /\ consumed' # consumed /\ consumed' # <<>> =>
             /\ Len(requests) = cur
             /\ requests' = requests
       /\ \A i \in Rows :
             calls'[i] # calls[i] =>
                 /\ acc[i] \in Terminal
                 /\ pc = "validate"
                 /\ Len(requests) = NumRecords
       /\ pc \in {"validate", "filter", "save", "done"} =>
             /\ requests' = requests
             /\ acc' = acc
             /\ dataset' = dataset
             /\ <<stage', reasoning_trace', consumed'>> = <<stage, reasoning_trace, consumed>>
             /\ \A i \in Rows :
                   sample_dataset'[i].reasoning_trace = sample_dataset[i].reasoning_trace
       /\ pc \in {"filter", "save", "done"} =>
             /\ calls' = calls
             /\ sample_dataset' = sample_dataset
       /\ pc \in {"save", "done"} => filtered_dataset' = filtered_dataset
    ]_vars

\* C17 witness: both records were requested, streamed to a terminal state and
\* then validated, and the filter has run after that.
C17_Witness ==
    /\ pc = "save"
    /\ Len(requests) = NumRecords
    /\ acc[1] = "COMPLETE"
    /\ acc[2] = "TRUNCATED"
    /\ calls[1] = <<"check_format", "calculate_answer">>
    /\ calls[2] # <<>>


\* C18: filter_reasoning_trace run on a row it has already judged gives the
\* same filtered and filtered_reason, and the same row, as the first run; run
\* once more on that result it gives them again.
C18_ValidatorIdempotent ==
    /\ \A i \in 1..Len(Validated) :
          LET once == Validated[i]
              twice == filter_reasoning_trace(once).ret
          IN  /\ twice.filtered = once.filtered
              /\ twice.filtered_reason = once.filtered_reason
              /\ twice = once
              /\ filter_reasoning_trace(twice).ret = twice
    /\ (pc = "validate") =>
          LET first == filter_reasoning_trace(sample_dataset[cur])
              again == filter_reasoning_trace(first.ret)
          IN  /\ again.ret = first.ret
              /\ again.invoked = first.invoked

\* C18 witness: a kept row and a rejected row, both judged.
C18_Witness ==
    /\ pc = "filter"
    /\ sample_dataset[1].filtered_reason = "VALID"
    /\ sample_dataset[2].filtered_reason = "INVALID_FORMAT"
    /\ sample_dataset[2].reasoning_trace # <<>>

\* C19: a call of the validator changes neither the row it is given nor any
\* other row, and the row it returns has the problem, answer and
\* reasoning_trace of its input with their values and, besides them, only
\* filtered and filtered_reason.
C19_ValidatorNoSideEffects ==
    [][pc = "validate" =>
          LET input == sample_dataset[cur]
              judged == IF pc' = "validate" THEN out'[cur] ELSE sample_dataset'[cur]
          IN  /\ DOMAIN input = {"problem", "answer", "reasoning_trace"}
              /\ DOMAIN judged = DOMAIN input \cup {"filtered", "filtered_reason"}
              /\ \A f \in DOMAIN input : judged[f] = input[f]
              /\ judged.filtered \in BOOLEAN
              /\ judged.filtered_reason \in {"VALID", "INVALID_FORMAT", "INCORRECT_ANSWER"}
              /\ pc' = "validate" =>
                    /\ sample_dataset' = sample_dataset
                    /\ SubSeq(out', 1, cur - 1) = out
              /\ pc' # "validate" =>
                    \A j \in 1..(cur - 1) : sample_dataset'[j] = out[j]
              /\ dataset' = dataset
              /\ <<requests', acc', filtered_dataset', disk'>>
                     = <<requests, acc, filtered_dataset, disk>>
    ]_vars

\* C19 witness: the first row has been judged and carries its three input
\* fields and the two verdict fields, while the second is still unjudged.
C19_Witness ==
    /\ pc = "validate"
    /\ cur = 2
    /\ Len(out) = 1
    /\ DOMAIN out[1] = {"problem", "answer", "reasoning_trace", "filtered", "filtered_reason"}
    /\ out[1].reasoning_trace = sample_dataset[1].reasoning_trace
    /\ out[1].reasoning_trace # <<>>
    /\ DOMAIN sample_dataset[2] = {"problem", "answer", "reasoning_trace"}


\* C20: every request sent, the k-th being the one for record k, has a
\* message list of exactly one message, of role user, whose content is the
\* template text followed by the problem of that record; no message of role
\* system is in it; temperature is 0.6, top_p 0.7, max_tokens 32768 and
\* stream is true.
C20_RequestShape ==
    \A k \in 1..Len(requests) :
        LET r == requests[k]
        IN  /\ Len(r.messages) = 1
            /\ r.messages[1].role = "user"
            /\ \A m \in 1..Len(r.messages) : r.messages[m].role # "system"
            /\ k <= Len(dataset)
            /\ r.messages[1].content =
                  "Please reason step by step, and put your final answer within \\boxed{}. "
                      \o dataset[k].problem
            /\ r.temperature = "0.6"
            /\ r.top_p = "0.7"
            /\ r.max_tokens = 32768
            /\ r.stream = TRUE

\* C20 witness: the requests of both records have been sent, each with its
\* own problem.
C20_Witness ==
    /\ Len(requests) = 2
    /\ requests[1].messages[1].content = PROMPT_TEMPLATE(dataset[1].problem)
    /\ requests[2].messages[1].content = PROMPT_TEMPLATE(dataset[2].problem)
    /\ requests[1] # requests[2]
    /\ pc = "distill"


\* The run was aborted by load_dataset: no corpus was ever bound to dataset.
LoadAborted == pc = "aborted" /\ dataset = <<>>

\* C21: when the corpus or split cannot be located the load raises and the
\* run is aborted there: a load that binds no corpus leads nowhere but to the
\* aborted state, in that state no request has been issued and nothing has
\* been selected, filtered or written, and no step (no second load, no
\* request, no save) is taken from it.
C21_LoadFailureAbortsRun ==
    /\ [](LoadAborted =>
             /\ requests = <<>>
             /\ sample_dataset = <<>>
             /\ filtered_dataset = <<>>
             /\ disk = <<>>
             /\ \A i \in Rows : acc[i] = "IDLE" /\ calls[i] = <<>>)
    /\ [][/\ (pc = "load" /\ dataset' = <<>>) => pc' = "aborted"
          /\ LoadAborted => FALSE
         ]_vars

\* C21 witness: the load has failed and the run is aborted with no corpus.
C21_Witness ==
    /\ LoadAborted
    /\ requests = <<>>
    /\ disk = <<>>


WellFormed(x) == OPEN_TAG \o CLOSE_TAG \o Boxed(x)

\* C22: a well-formed trace whose boxed answer is 9.80 is judged VALID
\* against the ground truth 9.8, and a well-formed trace whose boxed answer is
\* 185 is judged INCORRECT_ANSWER against the ground truth 180.
C22_DecimalFormsEquivalent ==
    \A i \in 1..Len(Validated) :
        LET row == Validated[i]
        IN  /\ (row.answer = Dec98 /\ row.reasoning_trace = WellFormed(Dec980)) =>
                  row.filtered_reason = "VALID"
            /\ (row.answer = Int180 /\ row.reasoning_trace = WellFormed(Int185)) =>
                  row.filtered_reason = "INCORRECT_ANSWER"


\* The verdict as a function of the text and the ground truth alone.
VerdictOf(trace, ground_truth) ==
    IF ~FormatOK(trace) THEN "INVALID_FORMAT"
    ELSE IF ~calculate_answer(trace, ground_truth) THEN "INCORRECT_ANSWER"
    ELSE "VALID"

\* C23: the verdict of a row is determined by its text and its ground truth,
\* whatever terminal state its stream reached: two rows with the same text
\* and ground truth have the same verdict also when one stream ended and the
\* other failed, and a row of a failed stream whose text passes both checks
\* is VALID and is in the filtered dataset that is saved.
C23_VerdictIgnoresHowStreamEnded ==
    /\ \A i \in 1..Len(Validated) :
          /\ Validated[i].filtered_reason
                 = VerdictOf(Validated[i].reasoning_trace, Validated[i].answer)
          /\ Validated[i].filtered = (Validated[i].filtered_reason # "VALID")
    /\ \A i, j \in 1..Len(Validated) :
          (/\ Validated[i].reasoning_trace = Validated[j].reasoning_trace
           /\ Validated[i].answer = Validated[j].answer) =>
              /\ Validated[i].filtered = Validated[j].filtered
              /\ Validated[i].filtered_reason = Validated[j].filtered_reason
    /\ pc \in {"save", "done"} =>
          \A i \in Rows :
              (/\ acc[i] = "TRUNCATED"
               /\ VerdictOf(sample_dataset[i].reasoning_trace, sample_dataset[i].answer) = "VALID") =>
                  \E k \in 1..Len(filtered_dataset) :
                      /\ filtered_dataset[k].problem = sample_dataset[i].problem
                      /\ filtered_dataset[k].reasoning_trace = sample_dataset[i].reasoning_trace
    /\ pc = "done" => disk = filtered_dataset

\* C23 witness: the same three fragments were delivered for both records, the
\* first stream ended normally and the second failed afterwards; both rows
\* are VALID and saved.
C23_Witness ==
    /\ pc = "done"
    /\ acc[1] = "COMPLETE"
    /\ acc[2] = "TRUNCATED"
    /\ sample_dataset[1].reasoning_trace = OPEN_TAG \o CLOSE_TAG \o BoxedFour
    /\ sample_dataset[2].reasoning_trace = sample_dataset[1].reasoning_trace
    /\ sample_dataset[1].filtered_reason = "VALID"
    /\ sample_dataset[2].filtered_reason = "VALID"
    /\ Len(disk) = 2


\* The requests issued for record i (the problems of a corpus differ).
RequestsFor(i) == {k \in 1..Len(requests) : requests[k] = create_args(dataset[i])}

\* C24: within one run every record that has been taken up has exactly one
\* request, also when its stream was truncated, and a record not yet taken up
\* has none: the requests issued are as many as the records taken up.
C24_OneRequestPerRecord ==
    /\ \A k \in 1..Len(requests) : k \in Rows /\ requests[k] = create_args(dataset[k])
    /\ \A i \in Rows :
          /\ Cardinality(RequestsFor(i)) <= 1
          /\ acc[i] # "IDLE" => Cardinality(RequestsFor(i)) = 1
          /\ acc[i] = "TRUNCATED" => RequestsFor(i) = {i}
    /\ pc = "distill" => Len(requests) = (IF stage = "request" THEN cur - 1 ELSE cur)
    /\ pc \in {"validate", "filter", "save", "done"} =>
          /\ Len(requests) = NumRecords
          /\ Len(requests) = Len(sample_dataset)
    /\ (pc = "aborted" /\ dataset # <<>>) => Len(requests) = cur

\* C24 witness: the stream of the first record was truncated, the run went on
\* to the second record, and each of the two has its one request.
C24_Witness ==
    /\ pc = "distill"
    /\ cur = 2
    /\ stage = "returned"
    /\ acc[1] = "TRUNCATED"
    /\ acc[2] = "TRUNCATED"
    /\ Len(requests) = 2
    /\ RequestsFor(1) = {1}
    /\ RequestsFor(2) = {2}


\* The chunks of cs before its last one.
Front(cs) == SubSeq(cs, 1, Len(cs) - 1)

\* The chunk on which handling raises: chunk.choices[0] does not exist.
Malformed(c) == c.choices = 0

\* C25: a chunk whose handling raises ends the accumulation like a transport
\* failure does: it is the last chunk taken from the stream, the call returns
\* at once, in the truncated state, the concatenation of the fragments of the
\* chunks before it, and the trace of a returned row never changes afterwards.
C25_FailingChunkEndsAccumulation ==
    /\ [](pc = "distill" =>
             /\ \A k \in 1..Len(consumed) : Malformed(consumed[k]) => k = Len(consumed)
             /\ (consumed # <<>> /\ Malformed(consumed[Len(consumed)])) =>
                   /\ stage = "returned"
                   /\ acc[cur] = "TRUNCATED"
                   /\ Len(out) = cur
                   /\ out[cur].reasoning_trace = Concat(Front(consumed)))
    /\ [][\A i \in Rows :
             (pc = "distill" /\ pc' = "distill" /\ i <= Len(out)) =>
                 /\ i <= Len(out')
                 /\ out'[i].reasoning_trace = out[i].reasoning_trace
         ]_vars

\* C25 witness: two fragments arrived, then a chunk with no choices; the row
\* has the two fragments.
C25_Witness ==
    /\ pc = "distill"
    /\ stage = "returned"
    /\ Len(consumed) = 3
    /\ consumed[1] = Chunk(OPEN_TAG)
    /\ consumed[2] = Chunk(CLOSE_TAG)
    /\ Malformed(consumed[3])
    /\ out[cur].reasoning_trace = OPEN_TAG \o CLOSE_TAG
    /\ acc[cur] = "TRUNCATED"


\* Record i has a verdict.
Judged(i) == calls[i] # <<>>

\* C26: the run is the distillation of every record, then the validation of
\* every record, then the save: a record is validated only when every record
\* has been distilled, the filtered dataset is built only when every record
\* has a verdict and is written only after that, and an aborted run has
\* built and written no filtered dataset.
C26_TwoBatchPhasesThenSave ==
    /\ [](/\ (\E i \in Rows : Judged(i)) =>
                /\ \A j \in Rows : acc[j] \in Terminal
                /\ pc \in {"validate", "filter", "save", "done"}
                /\ Len(requests) = NumRecords
          /\ pc \in {"save", "done"} =>
                /\ \A j \in Rows : Judged(j)
                /\ \A j \in Rows : sample_dataset[j].filtered_reason
                                       \in {"VALID", "INVALID_FORMAT", "INCORRECT_ANSWER"}
          /\ pc # "done" => disk = <<>>
          /\ pc \notin {"save", "done"} => filtered_dataset = <<>>
          /\ pc = "aborted" =>
                /\ \A j \in Rows : ~Judged(j)
                /\ filtered_dataset = <<>>
                /\ disk = <<>>)
    /\ [][/\ pc = "distill" => calls' = calls
          /\ filtered_dataset' # filtered_dataset =>
                (pc = "filter" /\ \A j \in Rows : Judged(j))
          /\ pc' = "done" => (pc \in {"save", "done"} /\ \A j \in Rows : Judged(j))
          /\ pc = "aborted" => pc' = "aborted"
         ]_vars

\* C26 witness: both records were distilled, then both judged, then the
\* filtered dataset, holding one kept row, was written.
C26_Witness ==
    /\ pc = "done"
    /\ \A j \in Rows : acc[j] \in Terminal /\ Judged(j)
    /\ sample_dataset[1].filtered_reason = "VALID"
    /\ sample_dataset[2].filtered_reason = "INCORRECT_ANSWER"
    /\ Len(disk) = 1
    /\ disk[1].problem = dataset[1].problem


FreezeTagsActed ==
    \/ freeze_tags \in {"waiting", "in_progress", "success", "failure"}
    \/ step # "none"
    \/ checkout_ref # ""
    \/ pinned # {}
    \/ pull_requests # <<>>

\* C28: the job freeze-tags is taken up only when the job code-freeze has
\* ended with success; when code-freeze fails or is cancelled no step of
\* freeze-tags runs: nothing is checked out, nothing is pinned and no pull
\* request is created, in that state and ever after.
C28_FreezeTagsNeedsCodeFreeze ==
    /\ [](/\ FreezeTagsActed => code_freeze = "success"
          /\ code_freeze \in {"failure", "cancelled"} =>
                /\ freeze_tags \in {"idle", "skipped"}
                /\ step = "none"
                /\ checkout_ref = ""
                /\ pinned = {}
                /\ pull_requests = <<>>)
    /\ [][/\ (freeze_tags = "idle" /\ freeze_tags' \notin {"idle", "skipped"}) =>
                code_freeze = "success"
          /\ code_freeze \in {"failure", "cancelled"} =>
                /\ code_freeze' = code_freeze
                /\ <<step', checkout_ref', pinned', pull_requests'>>
                       = <<step, checkout_ref, pinned, pull_requests>>
         ]_vars

\* C28 witness: code-freeze failed and freeze-tags was skipped with no step
\* run.
C28_Witness ==
    /\ code_freeze = "failure"
    /\ freeze_tags = "skipped"
    /\ step = "none"
    /\ pinned = {}

====
